---- MODULE Spec2Model ----
(***************************************************************************)
(* Preprocessing of ESP8266-Weather-EPaper/secrets.h.                      *)
(*                                                                         *)
(* secrets.h holds no executable code: it is a guarded list of four        *)
(* object-like macro definitions.  What it "does" is what the C            *)
(* preprocessor does with its 19 lines each time a translation unit        *)
(* includes it.  The model is that line-by-line processing: the macro      *)
(* table, the position in the header, and the stack of open conditionals.  *)
(* A macro body is the sequence of the characters of its replacement       *)
(* text, quotes included, so that "is a string literal", "is non-empty"    *)
(* and "has the form City,CountryCode" are computed from the text.         *)
(***************************************************************************)
EXTENDS Naturals, Sequences, FiniteSets, TLC

\* How many times the translation unit includes secrets.h.
MaxIncludes == 3

----------------------------------------------------------------------------
\* Characters and literals

Quote == "\""

Backslash == "\\"

Letters ==
  {"a","b","c","d","e","f","g","h","i","j","k","l","m",
   "n","o","p","q","r","s","t","u","v","w","x","y","z",
   "A","B","C","D","E","F","G","H","I","J","K","L","M",
   "N","O","P","Q","R","S","T","U","V","W","X","Y","Z"}

\* The replacement text  "chars"  : the characters between two double quotes.
Lit(chars) == <<Quote>> \o chars \o <<Quote>>

----------------------------------------------------------------------------
\* The names secrets.h mentions

GuardName == "SECRETS_H"

SsidName == "SECRET_WIFI_SSID"

PasswordName == "SECRET_WIFI_PASSWORD"

ApiKeyName == "SECRET_WEATHER_API_KEY"

CityName == "SECRET_WEATHER_CITY"

SecretNames == {SsidName, PasswordName, ApiKeyName, CityName}

----------------------------------------------------------------------------
\* The lines of secrets.h

\* A comment line or a blank line: no directive.
TextLine == [dir |-> "text", name |-> "", body |-> <<>>]

IfndefLine(n) == [dir |-> "ifndef", name |-> n, body |-> <<>>]

DefineLine(n, b) == [dir |-> "define", name |-> n, body |-> b]

EndifLine == [dir |-> "endif", name |-> "", body |-> <<>>]

SsidBody == Lit(<<"Y","o","u","r","W","I","F","I">>)

PasswordBody == Lit(<<"Y","o","u","r","P","a","s","s","w","o","r","d">>)

ApiKeyBody == Lit(<<"Y","o","u","r","A","P","I","K","e","y">>)

CityBody == Lit(<<"M","o","s","c","o","w",",","r","u">>)

\* secrets.h, line by line (Header[n] is line n of the file).
Header ==
  << TextLine,                              \*  1  // ===== ... =====
     TextLine,                              \*  2  // ...
     TextLine,                              \*  3
     IfndefLine(GuardName),                 \*  4  #ifndef SECRETS_H
     DefineLine(GuardName, <<>>),           \*  5  #define SECRETS_H
     TextLine,                              \*  6
     TextLine,                              \*  7  // SSID Wi-Fi ...
     DefineLine(SsidName, SsidBody),        \*  8  #define SECRET_WIFI_SSID "YourWIFI"
     TextLine,                              \*  9
     TextLine,                              \* 10  // ...
     DefineLine(PasswordName, PasswordBody),\* 11  #define SECRET_WIFI_PASSWORD "YourPassword"
     TextLine,                              \* 12
     TextLine,                              \* 13  // API-... OpenWeatherMap
     DefineLine(ApiKeyName, ApiKeyBody),    \* 14  #define SECRET_WEATHER_API_KEY "YourAPIKey"
     TextLine,                              \* 15
     TextLine,                              \* 16  // ... "City,CountryCode" ... "Moscow,ru"
     DefineLine(CityName, CityBody),        \* 17  #define SECRET_WEATHER_CITY "Moscow,ru"
     TextLine,                              \* 18
     EndifLine >>                           \* 19  #endif

NumLines == Len(Header)

\* Faulty variants of the header, one plausible slip each.

\* the city macro is forgotten
LineAt_NoCity(n) == IF n = 17 THEN TextLine ELSE Header[n]

\* the include guard is left out
LineAt_NoGuard(n) == IF n \in {4, 5, 19} THEN TextLine ELSE Header[n]

\* a fifth macro slips into the header
LineAt_Extra(n) ==
  IF n = 18 THEN DefineLine("SECRET_WEATHER_UNITS", Lit(<<"m">>)) ELSE Header[n]

\* the password is left empty
LineAt_EmptyPassword(n) ==
  IF n = 11 THEN DefineLine(PasswordName, Lit(<<>>)) ELSE Header[n]

\* the city is given without its country code
LineAt_CityOnly(n) ==
  IF n = 17 THEN DefineLine(CityName, Lit(<<"M","o","s","c","o","w">>)) ELSE Header[n]

\* the SSID is defined a second time, with another value
LineAt_SsidTwice(n) ==
  IF n = 9 THEN DefineLine(SsidName, Lit(<<"H","o","m","e">>)) ELSE Header[n]

\* the #endif is placed too early: the city lies outside the guarded region
LineAt_EarlyEndif(n) ==
  IF n = 15 THEN EndifLine ELSE IF n = 19 THEN TextLine ELSE Header[n]

\* the guard macro is defined at the end of the guarded region
LineAt_LateGuard(n) ==
  IF n = 5 THEN TextLine
  ELSE IF n = 18 THEN DefineLine(GuardName, <<>>) ELSE Header[n]

\* Line n of secrets.h, as the preprocessor reads it.
LineAt(n) == Header[n]

----------------------------------------------------------------------------
\* What the including unit brings: macros the toolchain may predefine, and
\* possibly SECRETS_H itself.

One == <<"1">>

ToolchainNames == {"ARDUINO", "ESP8266"}

Names == SecretNames \cup {GuardName} \cup ToolchainNames

\* The macro table where exactly the names of S are defined, each as 1.
TableOf(S) == [m \in S |-> One]

UnitTables == {TableOf(S) : S \in SUBSET (ToolchainNames \cup {GuardName})}

----------------------------------------------------------------------------
VARIABLES
  macros,     \* the macro table: name -> replacement text, for the defined names
  pc,         \* 0: in the including unit; n: about to read line n of secrets.h
  ifstack,    \* one flag per open conditional: is its group being processed
  includes,   \* inclusions of secrets.h begun so far
  start,      \* the macro table before the first inclusion
  entry,      \* the macro table when the current (or last) inclusion began
  first,      \* the macro table when the first inclusion ended
  defCount,   \* per name: how many #define lines of the header were executed
  redefs      \* names for which a #define was executed while already defined

vars == <<macros, pc, ifstack, includes, start, entry, first, defCount, redefs>>

Defined(m) == m \in DOMAIN macros

\* Inside a conditional group whose condition failed.
Skipping == \E i \in 1..Len(ifstack) : ~ifstack[i]

Init ==
  /\ macros \in UnitTables
  /\ pc = 0
  /\ ifstack = <<>>
  /\ includes = 0
  /\ start = macros
  /\ entry = macros
  /\ first = macros
  /\ defCount = [m \in Names |-> 0]
  /\ redefs = {}

\* #include "secrets.h"
BeginInclude ==
  /\ pc = 0
  /\ includes < MaxIncludes
  /\ pc' = 1
  /\ includes' = includes + 1
  /\ entry' = macros
  /\ UNCHANGED <<macros, ifstack, start, first, defCount, redefs>>

\* A comment or blank line.
StepText ==
  /\ pc \in 1..NumLines
  /\ LineAt(pc).dir = "text"
  /\ pc' = pc + 1
  /\ UNCHANGED <<macros, ifstack, includes, start, entry, first, defCount, redefs>>

\* #ifndef NAME
StepIfndef ==
  /\ pc \in 1..NumLines
  /\ LineAt(pc).dir = "ifndef"
  /\ ifstack' = Append(ifstack, ~Skipping /\ ~Defined(LineAt(pc).name))
  /\ pc' = pc + 1
  /\ UNCHANGED <<macros, includes, start, entry, first, defCount, redefs>>

\* #define NAME body, in a group that is being processed
StepDefine ==
  /\ pc \in 1..NumLines
  /\ LineAt(pc).dir = "define"
  /\ ~Skipping
  /\ LET n == LineAt(pc).name
         b == LineAt(pc).body
     IN /\ macros' = [m \in DOMAIN macros \cup {n} |-> IF m = n THEN b ELSE macros[m]]
        /\ defCount' = [m \in DOMAIN defCount \cup {n} |->
                          IF m = n
                            THEN (IF n \in DOMAIN defCount THEN defCount[n] ELSE 0) + 1
                            ELSE defCount[m]]
        /\ redefs' = IF Defined(n) THEN redefs \cup {n} ELSE redefs
  /\ pc' = pc + 1
  /\ UNCHANGED <<ifstack, includes, start, entry, first>>

\* #define NAME body, in a skipped group: the line is discarded
StepSkipped ==
  /\ pc \in 1..NumLines
  /\ LineAt(pc).dir = "define"
  /\ Skipping
  /\ pc' = pc + 1
  /\ UNCHANGED <<macros, ifstack, includes, start, entry, first, defCount, redefs>>

\* #endif
StepEndif ==
  /\ pc \in 1..NumLines
  /\ LineAt(pc).dir = "endif"
  /\ Len(ifstack) > 0
  /\ ifstack' = SubSeq(ifstack, 1, Len(ifstack) - 1)
  /\ pc' = pc + 1
  /\ UNCHANGED <<macros, includes, start, entry, first, defCount, redefs>>

\* End of secrets.h: back to the including unit.
EndInclude ==
  /\ pc = NumLines + 1
  /\ pc' = 0
  /\ first' = IF includes = 1 THEN macros ELSE first
  /\ UNCHANGED <<macros, ifstack, includes, start, entry, defCount, redefs>>

Next ==
  \/ BeginInclude
  \/ StepText
  \/ StepIfndef
  \/ StepDefine
  \/ StepSkipped
  \/ StepEndif
  \/ EndInclude

Spec == Init /\ [][Next]_vars

----------------------------------------------------------------------------
\* Reading a replacement text

\* From position i (inside the quotes): does the text close with one quote, and
\* is that quote its last character.  A backslash escapes the next character.
RECURSIVE ClosesAt(_, _)
ClosesAt(s, i) ==
  IF i > Len(s) THEN FALSE
  ELSE IF s[i] = Quote THEN i = Len(s)
  ELSE IF s[i] = Backslash THEN ClosesAt(s, i + 2)
  ELSE ClosesAt(s, i + 1)

\* The replacement text is one string literal token.
IsStringLiteral(s) == Len(s) >= 2 /\ s[1] = Quote /\ ClosesAt(s, 2)

\* The characters between the quotes.
LiteralValue(s) == SubSeq(s, 2, Len(s) - 1)

Commas(v) == {i \in 1..Len(v) : v[i] = ","}

\* v reads <City>,<CountryCode>: one comma, a city before it, two letters after.
IsCityQuery(v) ==
  /\ Cardinality(Commas(v)) = 1
  /\ LET k == CHOOSE i \in Commas(v) : TRUE
     IN /\ k > 1
        /\ Len(v) = k + 2
        /\ v[k + 1] \in Letters
        /\ v[k + 2] \in Letters

\* The names the inclusions have added to the macro table.
Added == DOMAIN macros \ DOMAIN start

\* An inclusion has been processed to its end and none is under way.
Included == pc = 0 /\ includes >= 1

----------------------------------------------------------------------------
\* C1: after secrets.h is included into a unit in which SECRETS_H was not
\* defined, each of the four SECRET_* macros is defined and its replacement
\* text is a string literal.
C1_AllDefinedAsLiterals ==
  (Included /\ GuardName \notin DOMAIN start) =>
    \A m \in SecretNames : Defined(m) /\ IsStringLiteral(macros[m])

C1_Witness ==
  /\ Included
  /\ includes = 1
  /\ GuardName \notin DOMAIN start
  /\ \A m \in SecretNames : Defined(m) /\ IsStringLiteral(macros[m])

\* C2: however often secrets.h is included, no #define of the header is
\* executed for a name that is already defined, and the macro table after
\* every later inclusion equals the table after the first one.
C2_GuardedIdempotent ==
  /\ redefs = {}
  /\ Included => macros = first

C2_Witness ==
  /\ Included
  /\ includes = MaxIncludes
  /\ GuardName \notin DOMAIN start
  /\ SecretNames \subseteq DOMAIN macros
  /\ macros = first
  /\ redefs = {}

\* C3 as stated: the names an inclusion adds to the macro table are exactly
\* the four SECRET_* names, and no other.
C3_Original_AddsExactlyFour ==
  (Included /\ GuardName \notin DOMAIN start) => Added = SecretNames

\* C3 amended: the names added are the four SECRET_* names and the guard
\* name SECRETS_H; no sixth name is ever added.
C3_AddsFourAndGuard ==
  /\ Added \subseteq SecretNames \cup {GuardName}
  /\ (Included /\ GuardName \notin DOMAIN start) =>
       Added = SecretNames \cup {GuardName}

C3_Witness ==
  /\ Included
  /\ GuardName \notin DOMAIN start
  /\ DOMAIN start = ToolchainNames
  /\ Added = SecretNames \cup {GuardName}

\* C4: each of the four SECRET_* macros expands to a non-empty string
\* literal (at least one character between the quotes).
C4_NonEmptyLiterals ==
  \A m \in SecretNames :
    Defined(m) => IsStringLiteral(macros[m]) /\ Len(LiteralValue(macros[m])) >= 1

C4_Witness ==
  /\ Included
  /\ \A m \in SecretNames :
       Defined(m) /\ IsStringLiteral(macros[m]) /\ Len(LiteralValue(macros[m])) >= 1

\* C5: the value of SECRET_WEATHER_CITY reads <City>,<CountryCode>: exactly
\* one comma, a non-empty city before it, exactly two letters after it.
C5_CityFormat ==
  Defined(CityName) =>
    IsStringLiteral(macros[CityName]) /\ IsCityQuery(LiteralValue(macros[CityName]))

C5_Witness ==
  /\ Defined(CityName)
  /\ pc = 18
  /\ IsCityQuery(LiteralValue(macros[CityName]))

\* C6: across any sequence of inclusions each SECRET_* macro is defined at
\* most once, and once defined it is never changed or removed.
C6_NoMutation ==
  [][\A m \in SecretNames :
       /\ defCount'[m] <= 1
       /\ Defined(m) => (m \in DOMAIN macros' /\ macros'[m] = macros[m])]_vars

C6_Witness ==
  /\ Included
  /\ includes = MaxIncludes
  /\ \A m \in SecretNames : Defined(m) /\ defCount[m] = 1

\* C7: an inclusion that begins with SECRETS_H already defined leaves the
\* whole macro table unchanged; when the including unit itself predefined
\* SECRETS_H, no SECRET_* macro is ever defined.
C7_GuardedFrame ==
  /\ (includes >= 1 /\ GuardName \in DOMAIN entry) => macros = entry
  /\ GuardName \in DOMAIN start => SecretNames \cap DOMAIN macros = {}

C7_Witness ==
  /\ Included
  /\ GuardName \in DOMAIN start
  /\ macros = entry
  /\ SecretNames \cap DOMAIN macros = {}

\* C8: SECRETS_H is defined before any SECRET_* macro: in every state where
\* a SECRET_* macro is defined, SECRETS_H is defined.
C8_GuardFirst ==
  (SecretNames \cap DOMAIN macros # {}) => Defined(GuardName)

C8_Witness ==
  /\ pc = 9
  /\ includes = 1
  /\ Defined(SsidName)
  /\ ~Defined(PasswordName)
  /\ Defined(GuardName)

====
